---- MODULE Spec2Model ----
(***************************************************************************)
(* Model of accident_and_emergency_sim.py: a population of Person objects  *)
(* that visit an AccidentEmergencyDepartment whose attendance_capacity is  *)
(* a simpy.Resource.  The simpy kernel the script runs on is modelled as   *)
(* the script uses it: an event queue ordered by (time, priority, event    *)
(* id), Initialize events of env.process scheduled URGENT, Timeout,        *)
(* Request and Release events scheduled NORMAL, and Resource.request /     *)
(* Resource.release with their put queue.  One action is one               *)
(* Environment.step(): it pops the next event and runs its callbacks, i.e. *)
(* the resumed generator up to its next yield.                             *)
(*                                                                         *)
(* Times are simulation seconds.  The exponential and triangular draws are *)
(* abstracted to small finite sets of delays with the same sign            *)
(* constraints (inter-arrival >= 0, service > 0); the recorded samples     *)
(* keep raw seconds instead of the /3600 and /3600/24 rescalings.          *)
(***************************************************************************)
EXTENDS Integers, Sequences, FiniteSets, TLC

\* ---- bounds of the exploration ----
MaxPopulation == 3
MaxCapacity == 2
Horizon == 21
MaxVisits == 4

\* ---- simpy event priorities ----
URGENT == 0
NORMAL == 1

\* np.random.exponential(...) * seconds_in_month: any value >= 0
ArrivalDelays == {0, 5}

\* np.random.triangular(300, 1200, 3600): strictly positive
ServiceDurations == {10, 15}

VARIABLES
    now,            \* env.now
    queue,          \* env._queue: set of pending events
    eid,            \* env._eid: next event id
    stage,          \* how far the script has got: "new", "failed" (the
                    \* constructor raised), "built", "populated", "run"
    running,        \* TRUE while env.run is stepping
    capacity,       \* attendance_capacity.capacity
    population,     \* local_population_size
    users,          \* attendance_capacity.users: granted requests (visit ids)
    put_queue,      \* attendance_capacity.put_queue: pending requests (visit ids)
    waiting_room,   \* AccidentEmergencyDepartment.waiting_room (list of persons)
    visits,         \* one record per process_patient generator: its locals
                    \* (who, arr), its position pc, and the history of the
                    \* visit (delay drawn before it, request number, whether
                    \* the request was queued, slots in use and requests
                    \* pending when it was issued, grant/start/done times, svc)
    queue_data,     \* accident_and_emergency_queue_data
    wait_data       \* patient_wait_time_data

vars == <<now, queue, eid, stage, running, capacity, population, users, put_queue,
          waiting_room, visits, queue_data, wait_data>>

\* ---- event queue -------------------------------------------------------

\* variant: the priority is left out of the heap key
EarlierNoPriority(a, b) ==
    \/ a.time < b.time
    \/ a.time = b.time /\ a.eid < b.eid

\* heap order of env._queue entries (time, priority, eid, event)
Earlier(a, b) ==
    \/ a.time < b.time
    \/ a.time = b.time /\ a.prio < b.prio
    \/ a.time = b.time /\ a.prio = b.prio /\ a.eid < b.eid

\* the entry heappop returns
NextEvent == CHOOSE e \in queue : \A f \in queue \ {e} : Earlier(e, f)

\* variant: the delay taken as the due time
DueAbsolute(t, delay) == delay

\* Environment.schedule: due time of an event scheduled with a delay
Due(t, delay) == t + delay

\* an event to schedule: priority, delay, kind, person, visit id
Ev(prio, delay, kind, who, v) ==
    [prio |-> prio, delay |-> delay, kind |-> kind, who |-> who, v |-> v]

\* Environment.schedule applied to a sequence of new events, in order
Schedule(q, t, e, evs) ==
    q \cup { [time |-> Due(t, evs[i].delay), prio |-> evs[i].prio,
              eid |-> e + i - 1, kind |-> evs[i].kind,
              who |-> evs[i].who, v |-> evs[i].v, d |-> evs[i].delay]
             : i \in DOMAIN evs }

\* ---- resource ----------------------------------------------------------

\* variant: off by one in the capacity test
CanGrantOffByOne(us, cap) == Len(us) <= cap

\* Resource._do_put: a slot is free
CanGrant(us, cap) == Len(us) < cap

\* variant: the newest pending request is tried instead of the oldest
PutCandidateNewest(pq) == Len(pq)

\* BaseResource._trigger_put: index of the put event it tries (idx = 0)
PutCandidate(pq) == 1

\* variant: the new request is put at the front of the queue
PutRequestFirst(pq, v) == <<v>> \o pq

\* Request.__init__: resource.put_queue.append(self)
PutRequest(pq, v) == Append(pq, v)

RemoveAt(s, i) == SubSeq(s, 1, i - 1) \o SubSeq(s, i + 1, Len(s))

\* BaseResource._trigger_put with Resource._do_put: tries one pending
\* request; if a slot is free it becomes a user and its event succeeds
TriggerPut(us, pq, cap) ==
    IF pq # <<>> /\ CanGrant(us, cap)
    THEN [users |-> Append(us, pq[PutCandidate(pq)]),
          put_queue |-> RemoveAt(pq, PutCandidate(pq)),
          granted |-> <<pq[PutCandidate(pq)]>>]
    ELSE [users |-> us, put_queue |-> pq, granted |-> <<>>]

\* list.remove(x): drops the first occurrence
RECURSIVE ListRemove(_, _)
ListRemove(s, x) ==
    IF s = <<>> THEN <<>>
    ELSE IF Head(s) = x THEN Tail(s)
    ELSE <<Head(s)>> \o ListRemove(Tail(s), x)

\* variant: the last entry is removed, whoever it is
LeaveWaitingRoomLast(wr, p) == SubSeq(wr, 1, Len(wr) - 1)

\* self.waiting_room.remove(patient)
LeaveWaitingRoom(wr, p) == ListRemove(wr, p)

\* Request.succeed() for the requests _trigger_put granted
GrantEvents(granted, vs) ==
    [i \in DOMAIN granted |-> Ev(NORMAL, 0, "grant", vs[granted[i]].who, granted[i])]

\* visit records with the grant time of the newly granted requests stamped
StampGrant(vs, granted, t) ==
    [i \in DOMAIN vs |->
        IF \E j \in DOMAIN granted : granted[j] = i
        THEN [vs[i] EXCEPT !.grant = t] ELSE vs[i]]

\* ---- samples -----------------------------------------------------------

\* variant: operands swapped
WaitTimeSwapped(t, arr) == arr - t

\* patient_wait_time = self.env.now - patient_arrival_time
WaitTime(t, arr) == t - arr

\* variant: the completion sample is dropped
RecordWaitDropped(data, name, arr, wait) == data

\* the three appends to patient_wait_time_data
RecordWait(data, name, arr, wait) ==
    Append(data, [patient_name |-> name, admittance_time |-> arr, wait_time |-> wait])

\* variant: the length is the one before the entity was appended
RecordQueueBefore(data, len, t) ==
    Append(data, [queue_length |-> len - 1, admittance_time |-> t])

\* the two appends to accident_and_emergency_queue_data
RecordQueue(data, len, t) ==
    Append(data, [queue_length |-> len, admittance_time |-> t])

\* ---- initial state -----------------------------------------------------

\* env.process(...) : a new process is started by an URGENT Initialize event
LiveLife(p) == <<Ev(URGENT, 0, "init_visit", p, 0)>>

\* variant: visit_a_and_e loops back to a new draw after spawning
VisitSpawnLoop(p, v) ==
    <<Ev(URGENT, 0, "init_pp", p, v), Ev(URGENT, 0, "init_visit", p, 0),
      Ev(NORMAL, 0, "proc_end", p, 0)>>

\* events visit_a_and_e creates when its timeout fires: the Initialize of
\* process_patient, then the process event of the finished generator
VisitSpawn(p, v) == <<Ev(URGENT, 0, "init_pp", p, v), Ev(NORMAL, 0, "proc_end", p, 0)>>

\* variant: the request is released twice
DischargeEventsTwice(p, v) ==
    <<Ev(NORMAL, 0, "release", p, v), Ev(NORMAL, 0, "release", p, v)>>
        \o LiveLife(p) \o <<Ev(NORMAL, 0, "proc_end", p, v)>>

\* variant: the Release event is not scheduled
DischargeEventsNoRelease(p, v) ==
    LiveLife(p) \o <<Ev(NORMAL, 0, "proc_end", p, v)>>

\* events process_patient creates at discharge: the Release, live_life's
\* Initialize, then the process event of the finished generator
DischargeEvents(p, v) ==
    <<Ev(NORMAL, 0, "release", p, v)>> \o LiveLife(p) \o <<Ev(NORMAL, 0, "proc_end", p, v)>>

\* variant: the loop runs once more than the population size
PopulationEventsOneMore(n) == [p \in 1..(n + 1) |-> LiveLife(p)[1]]

\* events of the population loop: Person.__init__ calls live_life
PopulationEvents(n) == [p \in 1..n |-> LiveLife(p)[1]]

\* env.run(until=...): an URGENT stop event at the horizon
UntilEvent == <<Ev(URGENT, Horizon, "until", 0, 0)>>

Init ==
    /\ now = 0
    /\ stage = "run"
    /\ running = TRUE
    /\ capacity \in 1..MaxCapacity
    /\ population \in 0..MaxPopulation
    /\ queue = Schedule(Schedule({}, 0, 0, PopulationEvents(population)),
                        0, population, UntilEvent)
    /\ eid = population + 1
    /\ users = <<>>
    /\ put_queue = <<>>
    /\ waiting_room = <<>>
    /\ visits = <<>>
    /\ queue_data = <<>>
    /\ wait_data = <<>>

\* ---- steps -------------------------------------------------------------

\* variant: the loop keeps stepping after the stop event
ReadyAfterStop(kind) == queue # {} /\ NextEvent.kind = kind

Ready(kind) == running /\ queue # {} /\ NextEvent.kind = kind

\* Environment.step: pop the event, advance the clock
Pop(ev) == /\ now' = ev.time

\* visit_a_and_e up to its yield: draw the delay, env.timeout(delay)
InitVisit ==
    /\ Ready("init_visit")
    /\ LET ev == NextEvent IN
       /\ Pop(ev)
       /\ \E d \in ArrivalDelays :
            queue' = Schedule(queue \ {ev}, ev.time, eid,
                              <<Ev(NORMAL, d, "arrive", ev.who, 0)>>)
       /\ eid' = eid + 1
    /\ UNCHANGED <<stage, running, capacity, population, users, put_queue,
                   waiting_room, visits, queue_data, wait_data>>

\* visit_a_and_e after its timeout: env.process(process_patient(self)), end
Arrive ==
    /\ Ready("arrive")
    /\ LET ev == NextEvent
           v == Len(visits) + 1
           evs == VisitSpawn(ev.who, v) IN
       /\ Pop(ev)
       /\ visits' = Append(visits, [who |-> ev.who, delay |-> ev.d, pc |-> "spawned",
                                    req |-> 0, queued |-> FALSE,
                                    inuse |-> -1, ahead |-> -1,
                                    arr |-> -1, grant |-> -1, start |-> -1,
                                    svc |-> -1, done |-> -1])
       /\ queue' = Schedule(queue \ {ev}, ev.time, eid, evs)
       /\ eid' = eid + Len(evs)
    /\ UNCHANGED <<stage, running, capacity, population, users, put_queue,
                   waiting_room, queue_data, wait_data>>

\* process_patient up to "yield attendance_request"
InitPP ==
    /\ Ready("init_pp")
    /\ LET ev == NextEvent
           wr == Append(waiting_room, ev.who)
           tp == TriggerPut(users, PutRequest(put_queue, ev.v), capacity)
           evs == GrantEvents(tp.granted, visits) IN
       /\ Pop(ev)
       /\ waiting_room' = wr
       /\ queue_data' = RecordQueue(queue_data, Len(wr), ev.time)
       /\ users' = tp.users
       /\ put_queue' = tp.put_queue
       /\ visits' = StampGrant([visits EXCEPT ![ev.v].arr = ev.time,
                                              ![ev.v].pc = "requested",
                                              ![ev.v].req = Len(queue_data) + 1,
                                              ![ev.v].inuse = Len(users),
                                              ![ev.v].ahead = Len(put_queue),
                                              ![ev.v].queued = \A j \in DOMAIN tp.granted :
                                                                  tp.granted[j] # ev.v],
                               tp.granted, ev.time)
       /\ queue' = Schedule(queue \ {ev}, ev.time, eid, evs)
       /\ eid' = eid + Len(evs)
    /\ UNCHANGED <<stage, running, capacity, population, wait_data>>

\* the Request event is processed: process_patient resumes, leaves the
\* waiting room and yields the service timeout
Grant ==
    /\ Ready("grant")
    /\ LET ev == NextEvent IN
       /\ Pop(ev)
       /\ waiting_room' = LeaveWaitingRoom(waiting_room, ev.who)
       /\ \E s \in ServiceDurations :
            /\ queue' = Schedule(queue \ {ev}, ev.time, eid,
                                 <<Ev(NORMAL, s, "served", ev.who, ev.v)>>)
            /\ visits' = [visits EXCEPT ![ev.v].svc = s, ![ev.v].start = ev.time,
                                        ![ev.v].pc = "serving"]
       /\ eid' = eid + 1
    /\ UNCHANGED <<stage, running, capacity, population, users, put_queue,
                   queue_data, wait_data>>

\* the service timeout fires: release, live_life, save data, end
Served ==
    /\ Ready("served")
    /\ LET ev == NextEvent
           evs == DischargeEvents(ev.who, ev.v) IN
       /\ Pop(ev)
       /\ users' = ListRemove(users, ev.v)
       /\ wait_data' = RecordWait(wait_data, ev.who, visits[ev.v].arr,
                                  WaitTime(ev.time, visits[ev.v].arr))
       /\ visits' = [visits EXCEPT ![ev.v].done = ev.time, ![ev.v].pc = "done"]
       /\ queue' = Schedule(queue \ {ev}, ev.time, eid, evs)
       /\ eid' = eid + Len(evs)
    /\ UNCHANGED <<stage, running, capacity, population, put_queue, waiting_room, queue_data>>

\* variant: processing the Release event grants nothing
ReleaseNoTrigger ==
    /\ Ready("release")
    /\ LET ev == NextEvent IN
       /\ Pop(ev)
       /\ queue' = queue \ {ev}
    /\ UNCHANGED <<stage, eid, running, capacity, population, users, put_queue,
                   waiting_room, visits, queue_data, wait_data>>

\* the Release event is processed: its callback is resource._trigger_put
Release ==
    /\ Ready("release")
    /\ LET ev == NextEvent
           tp == TriggerPut(users, put_queue, capacity)
           evs == GrantEvents(tp.granted, visits) IN
       /\ Pop(ev)
       /\ users' = tp.users
       /\ put_queue' = tp.put_queue
       /\ visits' = StampGrant(visits, tp.granted, ev.time)
       /\ queue' = Schedule(queue \ {ev}, ev.time, eid, evs)
       /\ eid' = eid + Len(evs)
    /\ UNCHANGED <<stage, running, capacity, population, waiting_room, queue_data, wait_data>>

\* the process event of a finished generator: nobody waits on it
ProcEnd ==
    /\ Ready("proc_end")
    /\ LET ev == NextEvent IN
       /\ Pop(ev)
       /\ queue' = queue \ {ev}
    /\ UNCHANGED <<stage, eid, running, capacity, population, users, put_queue,
                   waiting_room, visits, queue_data, wait_data>>

\* the stop event of env.run(until=...): StopSimulation, run returns
Until ==
    /\ Ready("until")
    /\ LET ev == NextEvent IN
       /\ Pop(ev)
       /\ queue' = queue \ {ev}
    /\ running' = FALSE
    /\ UNCHANGED <<stage, eid, capacity, population, users, put_queue,
                   waiting_room, visits, queue_data, wait_data>>

Next ==
    \/ InitVisit
    \/ Arrive
    \/ InitPP
    \/ Grant
    \/ Served
    \/ Release
    \/ ProcEnd
    \/ Until

Spec == Init /\ [][Next]_vars

\* ---- the script from its first statement -------------------------------

\* variant: a capacity of 0 is accepted
ValidCapacityOrZero(cap) == cap >= 0

\* simpy.Resource.__init__: ValueError unless capacity > 0
ValidCapacity(cap) == cap > 0

\* capacities and population sizes the script is started with; the last
\* pair is the configuration with capacity 5 and nobody to arrive
SetupInputs == ((-1..MaxCapacity) \X (0..MaxPopulation)) \cup {<<5, 0>>}

InitSetup ==
    /\ now = 0
    /\ stage = "new"
    /\ running = FALSE
    /\ \E c \in SetupInputs : capacity = c[1] /\ population = c[2]
    /\ queue = {}
    /\ eid = 0
    /\ users = <<>>
    /\ put_queue = <<>>
    /\ waiting_room = <<>>
    /\ visits = <<>>
    /\ queue_data = <<>>
    /\ wait_data = <<>>

\* AccidentEmergencyDepartment(env, capacity): simpy.Resource raises for a
\* capacity <= 0 and the script ends there
Construct ==
    /\ stage = "new"
    /\ stage' = IF ValidCapacity(capacity) THEN "built" ELSE "failed"
    /\ UNCHANGED <<now, queue, eid, running, capacity, population, users,
                   put_queue, waiting_room, visits, queue_data, wait_data>>

\* the population loop: every Person starts its first visit_a_and_e
Populate ==
    /\ stage = "built"
    /\ stage' = "populated"
    /\ queue' = Schedule(queue, now, eid, PopulationEvents(population))
    /\ eid' = eid + Len(PopulationEvents(population))
    /\ UNCHANGED <<now, running, capacity, population, users, put_queue,
                   waiting_room, visits, queue_data, wait_data>>

\* env.run(until=...): schedule the stop event and start stepping
Run ==
    /\ stage = "populated"
    /\ stage' = "run"
    /\ running' = TRUE
    /\ queue' = Schedule(queue, now, eid, UntilEvent)
    /\ eid' = eid + Len(UntilEvent)
    /\ UNCHANGED <<now, capacity, population, users, put_queue,
                   waiting_room, visits, queue_data, wait_data>>

NextSetup ==
    \/ Construct
    \/ Populate
    \/ Run
    \/ InitVisit
    \/ Arrive
    \/ InitPP
    \/ Grant
    \/ Served
    \/ Release
    \/ ProcEnd
    \/ Until

SpecSetup == InitSetup /\ [][NextSetup]_vars

\* ---- a run that the horizon does not cut off -------------------------

\* as Init, without the stop event of env.run
InitLive ==
    /\ now = 0
    /\ stage = "run"
    /\ running = TRUE
    /\ capacity \in 1..MaxCapacity
    /\ population \in 0..MaxPopulation
    /\ queue = Schedule({}, 0, 0, PopulationEvents(population))
    /\ eid = population
    /\ users = <<>>
    /\ put_queue = <<>>
    /\ waiting_room = <<>>
    /\ visits = <<>>
    /\ queue_data = <<>>
    /\ wait_data = <<>>

\* arrivals so far plus arrivals already scheduled
VisitsPlanned == Len(visits) + Cardinality({e \in queue : e.kind = "arrive"})

\* as InitVisit; once MaxVisits arrivals are planned the drawn delay is
\* taken to lie beyond the explored part of the run, and its timeout is
\* left out of the queue
InitVisitCapped ==
    /\ Ready("init_visit")
    /\ LET ev == NextEvent IN
       /\ Pop(ev)
       /\ IF VisitsPlanned < MaxVisits
          THEN \E d \in ArrivalDelays :
                 queue' = Schedule(queue \ {ev}, ev.time, eid,
                                   <<Ev(NORMAL, d, "arrive", ev.who, 0)>>)
          ELSE queue' = queue \ {ev}
       /\ eid' = eid + 1
    /\ UNCHANGED <<stage, running, capacity, population, users, put_queue,
                   waiting_room, visits, queue_data, wait_data>>

NextLive ==
    \/ InitVisitCapped
    \/ Arrive
    \/ InitPP
    \/ Grant
    \/ Served
    \/ Release
    \/ ProcEnd

\* env.run keeps stepping while an event is scheduled
SpecLive == InitLive /\ [][NextLive]_vars /\ WF_vars(NextLive)

\* ---- properties --------------------------------------------------------

Visits == DOMAIN visits
Pending == {put_queue[i] : i \in DOMAIN put_queue}
InService == {users[i] : i \in DOMAIN users}

\* C1: the number of slots of attendance_capacity in use is always between
\* 0 and capacity
C1_CapacityInvariant == Len(users) >= 0 /\ Len(users) <= capacity

\* the resource is full and a request is waiting behind it
C1_Witness == Len(users) = capacity /\ put_queue # <<>> /\ wait_data # <<>>

\* C2: requests are granted in the order process_patient issued them: a
\* request issued later is never granted while an earlier one is pending,
\* and of two granted requests the earlier issued was granted no later
C2_FifoGrant ==
    \A a \in Visits, b \in Visits :
        (visits[a].req > 0 /\ visits[a].req < visits[b].req /\ visits[b].grant # -1)
            => (visits[a].grant # -1 /\ visits[a].grant <= visits[b].grant)

\* two requests were pending together, the earlier has been granted after
\* waiting and the later is still in the put queue
C2_Witness ==
    \E a \in Visits, b \in Pending :
        /\ visits[a].queued /\ visits[a].grant # -1
        /\ visits[a].req < visits[b].req
        /\ visits[b].arr < visits[a].grant

\* entities that have arrived and whose request is not granted
Ungranted == {visits[v].who : v \in Pending}
\* entities whose process_patient sits at "yield attendance_request"
AtRequest == {v \in Visits : visits[v].pc = "requested"}
InWaitingRoom == {waiting_room[i] : i \in DOMAIN waiting_room}

\* C3 as stated: whenever an arrival is about to run and read the waiting
\* room, it holds exactly the arrived entities with an ungranted request
C3_AsStated ==
    Ready("init_pp") =>
        (InWaitingRoom = Ungranted /\ Len(waiting_room) = Len(put_queue))

\* C3: waiting_room holds exactly the entities whose process_patient has
\* not resumed from its request: every ungranted entity is in it, and an
\* entity in it whose request is granted still has its grant event pending
C3_WaitingRoom ==
    /\ InWaitingRoom = {visits[v].who : v \in AtRequest}
    /\ Len(waiting_room) = Cardinality(AtRequest)
    /\ Ungranted \subseteq InWaitingRoom
    /\ \A v \in AtRequest : visits[v].grant # -1 =>
            \E e \in queue : e.kind = "grant" /\ e.v = v /\ e.time = visits[v].grant

\* an arrival is about to record the queue length while a granted entity is
\* still in the waiting room next to an ungranted one
C3_Witness ==
    /\ Ready("init_pp")
    /\ \E v \in AtRequest : visits[v].grant # -1
    /\ Ungranted # {}

\* process_patient generators between their first step and their end
InFlight == {v \in Visits : visits[v].pc \in {"requested", "serving"}}

\* C4: completion samples never outnumber arrival samples, and the counts
\* are equal whenever no process_patient is in flight
C4_Conservation ==
    /\ Len(wait_data) <= Len(queue_data)
    /\ InFlight = {} => Len(wait_data) = Len(queue_data)

\* several visits completed and none in flight
C4_Witness == InFlight = {} /\ Len(wait_data) >= 2 /\ running

\* C5: every completion sample has a wait >= 0, and > 0 when the request
\* of that visit was not granted by the request call itself
C5_WaitNonNegative ==
    \A i \in DOMAIN wait_data :
        /\ wait_data[i].wait_time >= 0
        /\ \A v \in Visits :
              (/\ visits[v].who = wait_data[i].patient_name
               /\ visits[v].arr = wait_data[i].admittance_time
               /\ visits[v].queued) => wait_data[i].wait_time > 0

\* a completion sample of a visit that had to queue
C5_Witness ==
    \E i \in DOMAIN wait_data : \E v \in Visits :
        /\ visits[v].who = wait_data[i].patient_name
        /\ visits[v].arr = wait_data[i].admittance_time
        /\ visits[v].queued /\ visits[v].done # -1
        /\ wait_data[i].wait_time > visits[v].svc

\* C6: the clock never goes backwards from one processed event to the next
C6_MonotonicClock == [][now' >= now]_vars

\* the clock has advanced over several events, up to a discharge after a wait
C6_Witness ==
    now >= 10 /\ \E v \in Visits : visits[v].done = now /\ visits[v].start > visits[v].arr
\* C7 as stated: events due at the same time are processed in creation
\* order whatever their kind: no event that stays pending was created
\* before the processed event for the same time
C7_AsStated ==
    [][\A p \in queue \ queue', e \in queue \cap queue' :
          e.time > p.time \/ (e.time = p.time /\ e.eid > p.eid)]_vars

\* C7: events are processed in the order of (time, priority, creation):
\* at equal times an URGENT event (the Initialize of a spawned process, the
\* stop event) goes before every NORMAL one, and creation order decides
\* only between events of equal priority
C7_PriorityThenCreation ==
    [][\A p \in queue \ queue', e \in queue \cap queue' :
          \/ e.time > p.time
          \/ e.time = p.time /\ e.prio > p.prio
          \/ e.time = p.time /\ e.prio = p.prio /\ e.eid > p.eid]_vars

\* the Initialize of a process_patient is pending for the current time
\* together with a NORMAL event created before it
C7_Witness ==
    /\ running
    /\ \E e \in queue, f \in queue :
        /\ e.kind = "init_pp" /\ e.prio = URGENT /\ e.time = now
        /\ f.prio = NORMAL /\ f.time = now /\ f.eid < e.eid

\* service duration fixed at 10 so far
ServiceFixed10 == \A v \in Visits : visits[v].svc \in {-1, 10}

HasSample(name, arr, wait) ==
    \E i \in DOMAIN wait_data :
        wait_data[i] = [patient_name |-> name, admittance_time |-> arr, wait_time |-> wait]

\* capacity 1, two entities, first arrivals at t=0 and t=5
Scenario1 ==
    /\ capacity = 1 /\ population = 2 /\ Len(visits) >= 2
    /\ visits[1].arr = 0 /\ visits[2].arr = 5
    /\ visits[1].who # visits[2].who
    /\ ServiceFixed10

\* C8: in scenario 1 the first entity is granted at 0 and discharged at 10
\* with wait 10; the second is granted at 10, not before, and discharged
\* at 20 with wait 15
C8_Scenario1 ==
    Scenario1 =>
        /\ visits[1].grant = 0 /\ visits[1].start = 0 /\ ~visits[1].queued
        /\ visits[1].done \in {-1, 10}
        /\ visits[1].done = -1 => now <= 10
        /\ visits[1].done = 10 => HasSample(visits[1].who, 0, 10)
        /\ visits[2].queued
        /\ visits[2].grant \in {-1, 10}
        /\ visits[2].grant = -1 => now <= 10
        /\ visits[2].start \in {-1, 10}
        /\ visits[2].done \in {-1, 20}
        /\ visits[2].done = -1 => now <= 20
        /\ visits[2].done = 20 => HasSample(visits[2].who, 5, 15)

\* scenario 1 has run to the second discharge
C8_Witness == Scenario1 /\ visits[2].done = 20 /\ visits[1].done = 10

\* capacity 2, three entities, all first arrivals at t=0
Scenario2 ==
    /\ capacity = 2 /\ population = 3 /\ Len(visits) >= 3
    /\ \A v \in 1..3 : visits[v].arr = 0
    /\ ServiceFixed10

\* C9: in scenario 2 exactly two requests are granted at 0 and complete at
\* 10 with wait 10; the third is queued, granted at 10 and completes at 20
\* with wait 20
C9_Scenario2 ==
    Scenario2 =>
        /\ {v \in Visits : visits[v].grant = 0} = {1, 2}
        /\ \A v \in 1..2 :
              /\ ~visits[v].queued
              /\ visits[v].done \in {-1, 10}
              /\ visits[v].done = -1 => now <= 10
              /\ visits[v].done = 10 => HasSample(visits[v].who, 0, 10)
        /\ visits[3].queued
        /\ visits[3].grant \in {-1, 10}
        /\ visits[3].grant = -1 => now <= 10
        /\ visits[3].done \in {-1, 20}
        /\ visits[3].done = -1 => now <= 20
        /\ visits[3].done = 20 => HasSample(visits[3].who, 0, 20)

\* scenario 2 has run to the third discharge
C9_Witness == Scenario2 /\ visits[3].done = 20 /\ visits[1].done = 10 /\ visits[2].done = 10

\* b is the visit of the same entity that follows visit a
NextVisitOf(a, b) ==
    /\ a < b /\ visits[a].who = visits[b].who
    /\ \A c \in Visits : (a < c /\ c < b) => visits[c].who # visits[a].who

\* C10 as stated: two consecutive arrivals of one entity are exactly one
\* drawn inter-arrival delay apart
C10_AsStated ==
    \A a \in Visits, b \in Visits :
        (NextVisitOf(a, b) /\ visits[b].arr # -1)
            => visits[b].arr - visits[a].arr = visits[b].delay

\* C10: the next visit of an entity is spawned only after the earlier one
\* was discharged, and it arrives one drawn delay after that discharge, so
\* consecutive arrivals are the earlier wait plus the drawn delay apart
C10_NextArrivalAfterDischarge ==
    \A a \in Visits, b \in Visits :
        NextVisitOf(a, b) =>
            /\ visits[a].pc = "done"
            /\ visits[b].arr # -1 =>
                  /\ visits[b].arr = visits[a].done + visits[b].delay
                  /\ HasSample(visits[a].who, visits[a].arr,
                               visits[b].arr - visits[b].delay - visits[a].arr)

\* an entity has arrived a second time after a visit in which it queued
C10_Witness ==
    \E a \in Visits, b \in Visits :
        NextVisitOf(a, b) /\ visits[b].arr # -1 /\ visits[a].queued
\* C11 as stated: a request issued while a slot is free is granted without
\* suspending the caller (nothing else runs before the caller goes on), and
\* a request is left pending only when every slot was in use
C11_AsStated ==
    /\ \A v \in AtRequest :
          (visits[v].inuse < capacity /\ running)
              => (visits[v].grant # -1 /\ NextEvent.kind = "grant" /\ NextEvent.v = v)
    /\ \A v \in Visits : visits[v].queued => visits[v].inuse = capacity

\* C11: a request is granted inside the request call exactly when a slot
\* is free and no earlier request is pending; otherwise it joins the tail
\* of the put queue.  Granted or not, the caller is suspended at the yield
\* and goes on only when the grant event is processed, at the simulation
\* time of the grant
C11_GrantThenResume ==
    /\ \A v \in Visits : visits[v].arr # -1 =>
          /\ visits[v].queued <=> (visits[v].inuse = capacity \/ visits[v].ahead > 0)
          /\ ~visits[v].queued => visits[v].grant = visits[v].arr
          /\ visits[v].start # -1 => visits[v].start = visits[v].grant
          /\ (visits[v].grant # -1 /\ visits[v].pc = "requested") =>
                \E e \in queue : e.kind = "grant" /\ e.v = v /\ e.time = visits[v].grant
    /\ \A i \in DOMAIN put_queue, j \in DOMAIN put_queue :
          i < j => visits[put_queue[i]].req < visits[put_queue[j]].req

\* a caller whose request was granted in the request call is still
\* suspended while the event of another process is the next to run
C11_Witness ==
    /\ running
    /\ put_queue # <<>>
    /\ \E v \in AtRequest :
          /\ ~visits[v].queued /\ visits[v].grant # -1
          /\ NextEvent.kind = "arrive"
\* C12: no process body runs at a time >= the horizon: every arrival,
\* grant, resumption and discharge, hence every sample, happens before it;
\* once the stop event is processed the run has returned at the horizon
\* and whatever is still suspended stays as it is
C12_Horizon ==
    /\ \A v \in Visits :
          /\ visits[v].arr < Horizon /\ visits[v].grant < Horizon
          /\ visits[v].start < Horizon /\ visits[v].done < Horizon
    /\ \A i \in DOMAIN queue_data : queue_data[i].admittance_time < Horizon
    /\ \A i \in DOMAIN wait_data :
          wait_data[i].admittance_time + wait_data[i].wait_time < Horizon
    /\ running => now < Horizon
    /\ ~running =>
          /\ now = Horizon
          /\ \A e \in queue : e.time >= Horizon /\ e.kind # "until"

\* the run has returned while one process waits on a pending request and
\* another on a timeout
C12_Witness ==
    /\ ~running
    /\ put_queue # <<>>
    /\ \E e \in queue : e.kind = "served"
    /\ wait_data # <<>>
\* C15: an arrival sample is recorded in the step that appends the entity
\* to waiting_room; its queue_length is the length after that append, so
\* it counts the entity itself and is >= 1, and its time is the current time
C15_QueueLengthAtArrival ==
    [][queue_data' # queue_data =>
          LET s == queue_data'[Len(queue_data')] IN
          /\ queue_data' = Append(queue_data, s)
          /\ Len(waiting_room') = Len(waiting_room) + 1
          /\ SubSeq(waiting_room', 1, Len(waiting_room)) = waiting_room
          /\ s.queue_length = Len(waiting_room')
          /\ s.queue_length >= 1
          /\ s.admittance_time = now'
          /\ \E v \in Visits : /\ visits[v].arr = -1 /\ visits'[v].arr = now'
                                /\ waiting_room'[Len(waiting_room')] = visits[v].who]_vars

\* an arrival sample that counted another entity besides the arriving one
C15_Witness ==
    \E i \in DOMAIN queue_data :
        queue_data[i].queue_length >= 2 /\ queue_data[i].admittance_time > 0

\* Release events pending for the current time
ReleasesDue == {e \in queue : e.kind = "release" /\ e.time = now}

\* C17 as stated: whenever a request is pending every slot is in use
C17_AsStated == put_queue # <<>> => Len(users) = capacity

\* C17: a release frees the slot and schedules a Release event; the slot
\* goes to the head of the put queue when that event, or an earlier request
\* call, runs _trigger_put.  So requests are pending next to free slots
\* only while as many Release events are due at the current time
C17_NoIdleAcrossTime ==
    put_queue # <<>> => capacity - Len(users) <= Cardinality(ReleasesDue)

\* a slot has been freed and the waiter has not been granted yet
C17_Witness ==
    /\ running
    /\ put_queue # <<>>
    /\ Len(users) < capacity
    /\ ReleasesDue # {}

\* Release events created by a step
NewReleases == {e \in queue' \ queue : e.kind = "release"}

\* C18: a Release is issued only by the process_patient that holds the
\* request, once, when its service timeout fires: the request is a user,
\* was granted, the service time has elapsed, and the process ends
C18_ReleaseProtocol ==
    [][/\ Cardinality(NewReleases) <= 1
       /\ \A e \in NewReleases :
            /\ e.v \in InService /\ e.v \notin InService'
            /\ InService' = InService \ {e.v}
            /\ visits[e.v].pc = "serving" /\ visits'[e.v].pc = "done"
            /\ visits[e.v].who = e.who
            /\ visits[e.v].grant # -1 /\ visits[e.v].grant <= visits[e.v].start
            /\ now' = visits[e.v].start + visits[e.v].svc
       /\ \A v \in Visits :
            /\ visits[v].pc = "done" => visits'[v].pc = "done"
            /\ (visits[v].pc # "done" /\ visits'[v].pc = "done")
                  => \E e \in NewReleases : e.v = v
            /\ (v \in InService /\ v \notin InService')
                  => \E e \in NewReleases : e.v = v]_vars

\* the request of a visit that had queued has just been released
C18_Witness ==
    \E e \in queue : e.kind = "release" /\ visits[e.v].queued /\ visits[e.v].pc = "done"

\* what an entity has outstanding: pending starts or timeouts of
\* visit_a_and_e, and process_patient generators not yet finished
PendingVisitEvents(p) == {e \in queue : e.who = p /\ e.kind \in {"init_visit", "arrive"}}
OpenVisits(p) == {v \in Visits : visits[v].who = p /\ visits[v].pc # "done"}

\* C19: every Person has at most one activity outstanding, so no Person is
\* twice in waiting_room and at most population entities wait or are served
C19_OneActivityPerPerson ==
    /\ \A p \in 1..population :
          Cardinality(PendingVisitEvents(p)) + Cardinality(OpenVisits(p)) <= 1
    /\ \A i \in DOMAIN waiting_room, j \in DOMAIN waiting_room :
          i # j => waiting_room[i] # waiting_room[j]
    /\ Cardinality(InFlight) <= population

\* the whole population is in the department, some waiting
C19_Witness ==
    /\ population = MaxPopulation
    /\ Cardinality(InFlight) = population
    /\ put_queue # <<>>
    /\ wait_data # <<>>
\* C14: with a capacity <= 0 the construction of the department fails:
\* the script never gets past it, nothing is scheduled or spawned and the
\* run loop is never entered
C14_InvalidCapacityFails ==
    capacity <= 0 =>
        /\ stage \in {"new", "failed"}
        /\ ~running
        /\ queue = {} /\ eid = 0 /\ now = 0
        /\ visits = <<>> /\ users = <<>> /\ put_queue = <<>>
        /\ queue_data = <<>> /\ wait_data = <<>>

\* the constructor has raised for a capacity <= 0 and a non-empty population
C14_Witness == capacity <= 0 /\ stage = "failed" /\ population > 0

\* capacity 5 and an empty population
Scenario3 == capacity = 5 /\ population = 0

\* C16: in scenario 3 the only event ever scheduled is the stop event, no
\* process runs, nothing is in use or waiting and no sample is emitted;
\* the run returns at the horizon with an empty queue
C16_Scenario3 ==
    Scenario3 =>
        /\ users = <<>> /\ put_queue = <<>> /\ waiting_room = <<>>
        /\ visits = <<>>
        /\ queue_data = <<>> /\ wait_data = <<>>
        /\ \A e \in queue : e.kind = "until"
        /\ eid <= 1
        /\ stage = "run" => (running <=> queue # {})
        /\ (stage = "run" /\ ~running) => now = Horizon

\* scenario 3 has run and returned
C16_Witness == Scenario3 /\ stage = "run" /\ ~running /\ queue = {}
====
